---- MODULE Spec2Model ----
(***************************************************************************)
(* A model of src/app.py, the VBB departures dashboard:                    *)
(*   - process_departures (the departure normaliser), run record by record *)
(*     under SpecNormalize;                                                *)
(*   - search_station and get_departures (the two HTTP clients), run on    *)
(*     every outcome of the HTTP call under SpecClient;                    *)
(*   - the per-line average-delay view under SpecChart;                    *)
(*   - the Streamlit script (session state, widgets, reruns) under Spec.   *)
(* Each specification moves its own variables and leaves the others at     *)
(* their idle values.                                                      *)
(***************************************************************************)
EXTENDS Integers, Sequences, FiniteSets

VARIABLES
    \* process_departures
    departures_json,    \* the argument: a list of raw departures
    idx,                \* position of the for loop (1-based)
    processed_data,     \* rows appended so far
    warnings,           \* st.warning calls of the loop: the input positions skipped
    df_departures,      \* the returned table
    pcN,                \* "call" | "loop" | "done" | "idle"
    \* the average-delay view of the display step
    df_display,         \* the table shown
    avg_delay,          \* the series given to st.bar_chart
    shown,              \* what the display step drew: "none" | "chart" | "info" | "warning"
    \* the configuration and the two HTTP clients
    API_KEY,            \* os.getenv('VBB_API_KEY', placeholder)
    http_call,          \* the client called and the outcome of its HTTP request
    http_ret,           \* what the client gave back to its caller
    \* the Streamlit script
    session_state,      \* st.session_state
    pc,                 \* the block the script run is at, "idle" between runs
    action,             \* the user action that started the run: "load" | "query" | "select" | "refresh"
    typed,              \* the text the user typed into the text input, NoKey if none
    picked,             \* the option the user picked in this run, NoKey if none
    selectbox_value,    \* the value the selectbox widget holds in the browser
    refresh_clicked,    \* st.button is True in the run its click started
    page,               \* the widgets the run has rendered
    page_options,       \* the options of the rendered selectbox
    calls,              \* calls of the two clients since the user action
    config_error        \* the st.error of the API key check is on the page

varsN == <<departures_json, idx, processed_data, warnings, df_departures, pcN>>

varsC == <<df_display, avg_delay, shown>>

varsH == <<http_call, http_ret>>

varsA == <<session_state, pc, action, typed, picked, selectbox_value,
           refresh_clicked, page, page_options, calls, config_error>>

vars == <<varsN, varsC, API_KEY, varsH, varsA>>

(***************************************************************************)
(* Bounds of the model.                                                    *)
(***************************************************************************)
MaxLen == 3         \* longest list of raw departures drawn as input
MaxRows == 3        \* longest table drawn row by row for the chart
MaxLineId == 3      \* lines of the tables drawn row by row
MaxDelayMin == 2    \* largest 'Delay (Min)' of the tables drawn row by row
MaxWide == 17       \* most lines of the one-row-per-line tables
MaxItems == 2       \* longest JSON list drawn element by element
MaxStations == 6    \* longest JSON list of valid stations

(***************************************************************************)
(* Raw departures.  A JSON value of a time field is absent (no such key),  *)
(* null, a string pandas cannot parse, or a timestamp; timestamps are      *)
(* absolute seconds (day 0 starts at 0, day 1 at 86400).                   *)
(***************************************************************************)
SecondsPerMinute == 60
SecondsPerHour == 3600
SecondsPerDay == 86400

Absent == [tag |-> "absent", v |-> 0]
Null == [tag |-> "null", v |-> 0]
BadStr == [tag |-> "badstr", v |-> 0]
Ts(s) == [tag |-> "ts", v |-> s]

\* 09:58:00, 10:00:00, 10:00:30, 10:01:30, 10:07:00 of day 0; 00:05:00 of day 1
T0958 == Ts(35880)
T1000 == Ts(36000)
T100030 == Ts(36030)
T100130 == Ts(36090)
T1007 == Ts(36420)
T0005next == Ts(86700)

\* the 'delay' field: absent, null, an int, a float (given in tenths of a
\* second), a string of an integer, a string of a decimal such as "90.5", a
\* string that is no number, a list, or the float Infinity
DelayInt(n) == [tag |-> "int", v |-> n]
DelayFloat(tenths) == [tag |-> "float", v |-> tenths]
DelayNumStr(n) == [tag |-> "numstr", v |-> n]
DelayDecimalStr == [tag |-> "decstr", v |-> 905]
DelayBadStr == [tag |-> "badstr", v |-> 0]
DelayList == [tag |-> "list", v |-> 0]
DelayInf == [tag |-> "inf", v |-> 0]

\* the 'line' field: absent, a dict with 'name', a dict with only
\* 'productName', an empty dict, or a bare string (not a dict)
LineDict(n) == [tag |-> "name", v |-> n]
LineProduct(n) == [tag |-> "productName", v |-> n]
LineEmpty == [tag |-> "empty", v |-> "N/A"]
LineAbsent == [tag |-> "absent", v |-> "N/A"]
LineStr == [tag |-> "str", v |-> "N/A"]

Dep(ln, pw, st, wh, at, dl) ==
    [isDict |-> TRUE, line |-> ln, plannedWhen |-> pw, scheduledTime |-> st,
     when |-> wh, actualTime |-> at, delay |-> dl]

\* an element of the list that is no dict (a string, a number)
NotADict ==
    [isDict |-> FALSE, line |-> LineAbsent, plannedWhen |-> Absent,
     scheduledTime |-> Absent, when |-> Absent, actualTime |-> Absent,
     delay |-> Absent]

(***************************************************************************)
(* The per-record body of the loop of process_departures.                  *)
(***************************************************************************)
\* dict.get(key, default): the default only when the key is absent
Get(value, default) == IF value.tag = "absent" THEN default ELSE value

\* truthiness of a resolved time string: None and absent are falsy
Truthy(value) == value.tag \in {"ts", "badstr"}

\* pd.to_datetime raises on a string it cannot parse
ToDatetimeRaises(value) == value.tag = "badstr"

scheduled_time_str(dep) == Get(dep.plannedWhen, dep.scheduledTime)

expected_time_str(dep) ==
    Get(dep.when, Get(dep.actualTime, scheduled_time_str(dep)))

\* a resolved datetime: [none |-> TRUE] is Python's None
NoneDt == [none |-> TRUE, secs |-> 0]
Dt(s) == [none |-> FALSE, secs |-> s]

scheduled_dt(dep) ==
    IF Truthy(scheduled_time_str(dep))
    THEN Dt(scheduled_time_str(dep).v) ELSE NoneDt

expected_dt(dep) ==
    IF Truthy(expected_time_str(dep))
    THEN Dt(expected_time_str(dep).v) ELSE scheduled_dt(dep)

\* int(delay_seconds) raises ValueError or TypeError, caught by the inner try
IntRaisesCaught(dl) == dl.tag \in {"badstr", "decstr", "list"}

\* int(delay_seconds) of an int, a float (cut towards zero) or a string of an
\* integer
IntOf(dl) ==
    IF dl.tag = "float"
    THEN IF dl.v >= 0 THEN dl.v \div 10 ELSE -((-dl.v) \div 10)
    ELSE dl.v

\* int(float('inf')) raises OverflowError, which the inner try does not catch
IntRaisesUncaught(dl) == dl.tag = "inf"

\* rounding to the nearest minute in place of the floor
FloorMinutesRounded(d) == (d + 30) \div SecondsPerMinute

\* int(delay_seconds) // 60
FloorMinutes(d) == d \div SecondsPerMinute

\* round(time_diff.total_seconds() / 60): Python rounds a half to the even side
RoundMinutes(s) ==
    LET q == s \div SecondsPerMinute
        r == s % SecondsPerMinute
    IN  IF r < 30 THEN q
        ELSE IF r > 30 THEN q + 1
        ELSE IF q % 2 = 0 THEN q ELSE q + 1

\* delay_minutes before the clamp: [none |-> TRUE] is None
NoneDelay == [none |-> TRUE, m |-> 0]

raw_delay_minutes(dep) ==
    IF dep.delay.tag \notin {"absent", "null"}
    THEN IF IntRaisesCaught(dep.delay)
         THEN [none |-> FALSE, m |-> 0]
         ELSE [none |-> FALSE, m |-> FloorMinutes(IntOf(dep.delay))]
    ELSE IF ~scheduled_dt(dep).none /\ ~expected_dt(dep).none
         THEN [none |-> FALSE,
               m |-> RoundMinutes(expected_dt(dep).secs - scheduled_dt(dep).secs)]
         ELSE NoneDelay

\* the clamp left out
ClampOmitted(dm) == dm

\* if delay_minutes is not None and delay_minutes < 0: delay_minutes = 0
Clamp(dm) == IF ~dm.none /\ dm.m < 0 THEN [none |-> FALSE, m |-> 0] ELSE dm

\* int(delay_minutes) if delay_minutes is not None else 0
DelayCell(dm) == IF dm.none THEN 0 ELSE dm.m

\* strftime('%H:%M'), or 'N/A' for None
NA == [na |-> TRUE, hh |-> 0, mm |-> 0]
Strftime(dt) ==
    IF dt.none THEN NA
    ELSE [na |-> FALSE,
          hh |-> (dt.secs % SecondsPerDay) \div SecondsPerHour,
          mm |-> (dt.secs % SecondsPerHour) \div SecondsPerMinute]

line_name(dep) == dep.line.v

\* the try body raises: dep or dep['line'] is no dict, a time string does not
\* parse, or int() overflows
RecordRaises(dep) ==
    \/ ~dep.isDict
    \/ dep.line.tag = "str"
    \/ ToDatetimeRaises(scheduled_time_str(dep)) /\ Truthy(scheduled_time_str(dep))
    \/ ToDatetimeRaises(expected_time_str(dep)) /\ Truthy(expected_time_str(dep))
    \/ IntRaisesUncaught(dep.delay)

\* the row appended for the record at input position i (src: that position)
Row(dep, i) ==
    [Line |-> line_name(dep),
     Scheduled |-> Strftime(scheduled_dt(dep)),
     Expected |-> Strftime(expected_dt(dep)),
     Delay |-> DelayCell(Clamp(raw_delay_minutes(dep))),
     src |-> i]

(***************************************************************************)
(* The sort of the table by the reconstructed same-day time of 'Expected'. *)
(***************************************************************************)
MinutesPerHour == 60

\* datetime.strptime(today + ' ' + x, '%Y-%m-%d %H:%M'), as minutes of today;
\* pd.NaT for 'N/A'
sort_time(row) ==
    [nat |-> row.Expected.na,
     t |-> row.Expected.hh * MinutesPerHour + row.Expected.mm]

\* na_position='first' in place of 'last'
BeforeNaFirst(b, a) ==
    IF sort_time(b).nat THEN ~sort_time(a).nat
    ELSE ~sort_time(a).nat /\ sort_time(b).t < sort_time(a).t

\* b goes strictly before a under sort_values(by='sort_time', na_position='last')
Before(b, a) ==
    IF sort_time(b).nat THEN FALSE
    ELSE sort_time(a).nat \/ sort_time(b).t < sort_time(a).t

RECURSIVE InsertRow(_, _)
InsertRow(sorted, row) ==
    IF sorted = <<>> THEN <<row>>
    ELSE IF Before(row, Head(sorted)) THEN <<row>> \o sorted
    ELSE <<Head(sorted)>> \o InsertRow(Tail(sorted), row)

RECURSIVE SortValues(_)
SortValues(rows) ==
    IF rows = <<>> THEN <<>>
    ELSE InsertRow(SortValues(SubSeq(rows, 1, Len(rows) - 1)), rows[Len(rows)])

\* pd.to_numeric(...).fillna(0).astype(int) on the Delay column: every cell is
\* an int already
CoerceDelay(rows) == rows

(***************************************************************************)
(* process_departures, one loop iteration per step.                        *)
(***************************************************************************)
\* 'break' in place of 'continue'
AbortLoop(i) == Len(departures_json) + 1

\* 'continue' after the warning: on to the next record
AfterSkip(i) == i + 1

CallEmpty ==
    /\ pcN = "call"
    /\ departures_json = <<>>
    /\ df_departures' = <<>>
    /\ pcN' = "done"
    /\ UNCHANGED <<departures_json, idx, processed_data, warnings>>
    /\ UNCHANGED <<varsC, API_KEY, varsH, varsA>>

CallLoop ==
    /\ pcN = "call"
    /\ departures_json # <<>>
    /\ pcN' = "loop"
    /\ UNCHANGED <<departures_json, idx, processed_data, warnings, df_departures>>
    /\ UNCHANGED <<varsC, API_KEY, varsH, varsA>>

AppendRecord ==
    /\ pcN = "loop"
    /\ idx <= Len(departures_json)
    /\ ~RecordRaises(departures_json[idx])
    /\ processed_data' = Append(processed_data, Row(departures_json[idx], idx))
    /\ idx' = idx + 1
    /\ UNCHANGED <<departures_json, warnings, df_departures, pcN>>
    /\ UNCHANGED <<varsC, API_KEY, varsH, varsA>>

SkipRecord ==
    /\ pcN = "loop"
    /\ idx <= Len(departures_json)
    /\ RecordRaises(departures_json[idx])
    /\ warnings' = Append(warnings, idx)
    /\ idx' = AfterSkip(idx)
    /\ UNCHANGED <<departures_json, processed_data, df_departures, pcN>>
    /\ UNCHANGED <<varsC, API_KEY, varsH, varsA>>

ReturnNoRows ==
    /\ pcN = "loop"
    /\ idx > Len(departures_json)
    /\ processed_data = <<>>
    /\ df_departures' = <<>>
    /\ pcN' = "done"
    /\ UNCHANGED <<departures_json, idx, processed_data, warnings>>
    /\ UNCHANGED <<varsC, API_KEY, varsH, varsA>>

ReturnSorted ==
    /\ pcN = "loop"
    /\ idx > Len(departures_json)
    /\ processed_data # <<>>
    /\ df_departures' = SortValues(CoerceDelay(processed_data))
    /\ pcN' = "done"
    /\ UNCHANGED <<departures_json, idx, processed_data, warnings>>
    /\ UNCHANGED <<varsC, API_KEY, varsH, varsA>>

\* the raw departures drawn in lists of any order
RawCore ==
    {Dep(LineDict("S1"), pw, Absent, wh, Absent, Absent) :
        pw \in {Absent, BadStr, T1000}, wh \in {Absent, T0958, T1007}}
    \cup {NotADict, Dep(LineDict("U2"), T1007, Absent, T0005next, Absent, DelayInt(90))}

\* the raw departures drawn alone: every combination of the fields
RawFull ==
    {Dep(ln, pw, st, wh, at, dl) :
        ln \in {LineDict("S1"), LineProduct("U2"), LineEmpty, LineAbsent, LineStr},
        pw \in {Absent, Null, BadStr, T1000, T100030},
        st \in {Absent, T1000},
        wh \in {Absent, Null, BadStr, T0958, T1000, T100130, T1007, T0005next},
        at \in {Absent, T1007},
        dl \in {Absent, Null, DelayInt(0), DelayInt(90), DelayInt(-61),
                DelayFloat(1199), DelayFloat(-5), DelayNumStr(150),
                DelayDecimalStr, DelayBadStr, DelayList, DelayInf}}

RECURSIVE ListsUpTo(_, _)
ListsUpTo(S, n) ==
    IF n = 0 THEN {<<>>}
    ELSE LET shorter == ListsUpTo(S, n - 1)
         IN  shorter \cup {Append(l, x) : l \in {s \in shorter : Len(s) = n - 1}, x \in S}

(***************************************************************************)
(* The average-delay view (the chart of the display step).  A line name is *)
(* modelled by its rank in the order groupby sorts the names in.           *)
(***************************************************************************)
TopN == 15

\* df_display[df_display['Delay (Min)'] > 0]
PositiveDelays(rows) == SelectSeq(rows, LAMBDA r : r.Delay > 0)

RECURSIVE SumDelay(_, _)
SumDelay(rows, line) ==
    IF rows = <<>> THEN 0
    ELSE (IF Head(rows).Line = line THEN Head(rows).Delay ELSE 0)
         + SumDelay(Tail(rows), line)

CountRows(rows, line) == Cardinality({k \in 1..Len(rows) : rows[k].Line = line})

\* groupby('Line')['Delay (Min)'].mean(): one entry per line, in the order of
\* the line names; the mean is total / count
RECURSIVE GroupsFrom(_, _)
GroupsFrom(keys, rows) ==
    IF keys = {} THEN <<>>
    ELSE LET k == CHOOSE x \in keys : \A y \in keys : x <= y
         IN  <<[Line |-> k, total |-> SumDelay(rows, k), count |-> CountRows(rows, k)]>>
             \o GroupsFrom(keys \ {k}, rows)

GroupByMean(rows) == GroupsFrom({rows[k].Line : k \in 1..Len(rows)}, rows)

\* the mean of b is greater than the mean of a
MeanGreater(b, a) == b.total * a.count > a.total * b.count

RECURSIVE InsertGroup(_, _)
InsertGroup(sorted, g) ==
    IF sorted = <<>> THEN <<g>>
    ELSE IF MeanGreater(g, Head(sorted)) THEN <<g>> \o sorted
    ELSE <<Head(sorted)>> \o InsertGroup(Tail(sorted), g)

\* sort_values(ascending=False)
RECURSIVE SortDescending(_)
SortDescending(groups) ==
    IF groups = <<>> THEN <<>>
    ELSE InsertGroup(SortDescending(SubSeq(groups, 1, Len(groups) - 1)),
                     groups[Len(groups)])

\* the cap left out
HeadAll(s) == s

\* .head(15)
HeadTop(s) == SubSeq(s, 1, IF Len(s) < TopN THEN Len(s) ELSE TopN)

AverageDelay(rows) == HeadTop(SortDescending(GroupByMean(PositiveDelays(rows))))

ShowNoData ==
    /\ shown = "none"
    /\ df_display = <<>>
    /\ shown' = "warning"
    /\ UNCHANGED <<df_display, avg_delay>>
    /\ UNCHANGED <<varsN, API_KEY, varsH, varsA>>

ShowNoPositive ==
    /\ shown = "none"
    /\ df_display # <<>>
    /\ PositiveDelays(df_display) = <<>>
    /\ shown' = "info"
    /\ UNCHANGED <<df_display, avg_delay>>
    /\ UNCHANGED <<varsN, API_KEY, varsH, varsA>>

ShowChart ==
    /\ shown = "none"
    /\ df_display # <<>>
    /\ PositiveDelays(df_display) # <<>>
    /\ avg_delay' = AverageDelay(df_display)
    /\ shown' = "chart"
    /\ UNCHANGED df_display
    /\ UNCHANGED <<varsN, API_KEY, varsH, varsA>>

ChartRow(l, d) == [Line |-> l, Delay |-> d]

\* tables drawn row by row
SmallTables ==
    ListsUpTo({ChartRow(l, d) : l \in 1..MaxLineId, d \in 0..MaxDelayMin}, MaxRows)

\* tables of n lines, one row each, the delays 1..3 in three patterns
WideTables ==
    {[i \in 1..n |-> ChartRow(i, 1 + ((i * p) % 3))] : n \in 1..MaxWide, p \in 1..3}

(***************************************************************************)
(* The HTTP clients search_station and get_departures.                     *)
(*                                                                         *)
(* The outcome of requests.get(...), raise_for_status() and                *)
(* response.json(): a transport failure, a body that is no JSON, or a      *)
(* decoded body.  A decoded body is a list, a dict (given by the values    *)
(* under the three keys the client probes, in the order it probes them), a *)
(* string (keyText: the first probed key the text contains, 0 for none),   *)
(* a number or null.                                                       *)
(***************************************************************************)
PLACEHOLDER == "YOUR_VBB_API_KEY_HERE"

NoKey == "<absent>"

\* an element of a list: a JSON object with its 'type', 'id' and 'name'
\* (NoKey: no such key), or a value that is no object
Station(typ, id, name) == [isDict |-> TRUE, typ |-> typ, id |-> id, name |-> name]
NonRecord == [isDict |-> FALSE, typ |-> NoKey, id |-> NoKey, name |-> NoKey]

FieldAbsent == [tag |-> "absent", items |-> <<>>]
FieldNonList == [tag |-> "nonlist", items |-> <<>>]
FieldList(items) == [tag |-> "list", items |-> items]

NoFields == <<FieldAbsent, FieldAbsent, FieldAbsent>>

ListBody(items) == [shape |-> "list", items |-> items, fields |-> NoFields, keyText |-> 0]
DictBody(fields) == [shape |-> "dict", items |-> <<>>, fields |-> fields, keyText |-> 0]
StringBody(k) == [shape |-> "string", items |-> <<>>, fields |-> NoFields, keyText |-> k]
ScalarBody(shape) == [shape |-> shape, items |-> <<>>, fields |-> NoFields, keyText |-> 0]

Failure(kind) == [kind |-> kind, data |-> ScalarBody("null")]
Json(data) == [kind |-> "json", data |-> data]

\* ConnectionError, Timeout, HTTPError (raise_for_status) and the
\* JSONDecodeError of requests are RequestExceptions
IsRequestException(out) ==
    out.kind \in {"connection_error", "timeout", "http_error", "bad_json_requests"}

\* json.JSONDecodeError, raised by response.json() of an older requests
IsJSONDecodeError(out) == out.kind = "bad_json_stdlib"

\* if not API_KEY or API_KEY == "YOUR_VBB_API_KEY_HERE"
KeyNotConfigured(key) == key = "" \/ key = PLACEHOLDER

\* the probe for the list: isinstance(data, list), else the first key of
\* potential_keys with 'key in data and isinstance(data[key], list)'.
\* 'key in data' raises TypeError for a number or null; for a string it is a
\* substring test, and data[key] then raises TypeError.
FindList(data) ==
    CASE data.shape = "list" ->
            [raised |-> FALSE, found |-> TRUE, items |-> data.items]
      [] data.shape = "dict" ->
            IF \E i \in 1..3 : data.fields[i].tag = "list"
            THEN LET i == CHOOSE i \in 1..3 :
                              /\ data.fields[i].tag = "list"
                              /\ \A j \in 1..(i - 1) : data.fields[j].tag # "list"
                 IN  [raised |-> FALSE, found |-> TRUE, items |-> data.fields[i].items]
            ELSE [raised |-> FALSE, found |-> FALSE, items |-> <<>>]
      [] data.shape = "string" ->
            [raised |-> data.keyText # 0, found |-> FALSE, items |-> <<>>]
      [] OTHER ->
            [raised |-> TRUE, found |-> FALSE, items |-> <<>>]

Return(value, messages, requests) ==
    [raised |-> FALSE, exc |-> "", value |-> value, messages |-> messages,
     requests |-> requests]

Raise(exc) ==
    [raised |-> TRUE, exc |-> exc, value |-> <<>>, messages |-> <<>>, requests |-> 1]

MaxResults == 5

\* stations[:5]
FirstFive(s) == SubSeq(s, 1, IF Len(s) < MaxResults THEN Len(s) ELSE MaxResults)

\* loc.get('type') == 'stop' or 'id' in loc
LooksLikeStation(loc) == loc.typ = "stop" \/ loc.id # NoKey

DummyStations ==
    <<Station(NoKey, "900000100001", "Example Station A (Dummy)"),
      Station(NoKey, "900000100002", "Example Station B (Dummy)")>>

search_station(key, out) ==
    IF KeyNotConfigured(key)
    THEN Return(DummyStations, <<"error">>, 0)
    ELSE IF IsRequestException(out) THEN Return(<<>>, <<"error">>, 1)
    ELSE IF IsJSONDecodeError(out) THEN Return(<<>>, <<"error">>, 1)
    ELSE LET f == FindList(out.data)
         IN  IF f.raised THEN Raise("TypeError")
             ELSE IF ~f.found THEN Return(<<>>, <<"warning">>, 1)
             ELSE IF \E k \in 1..Len(f.items) : ~f.items[k].isDict
                  THEN Raise("AttributeError")
                  ELSE Return(FirstFive(SelectSeq(f.items, LooksLikeStation)), <<>>, 1)

\* the two dummy departures returned without a key
DummyDepartures ==
    <<Dep(LineDict("S1"), Ts(36900), Absent, Ts(36900), Absent, DelayInt(0)),
      Dep(LineDict("U2"), Ts(37020), Absent, Ts(37080), Absent, DelayInt(60))>>

get_departures(key, out) ==
    IF KeyNotConfigured(key)
    THEN Return(DummyDepartures, <<"error">>, 0)
    ELSE IF IsRequestException(out) THEN Return(<<>>, <<"error">>, 1)
    ELSE IF IsJSONDecodeError(out) THEN Return(<<>>, <<"error">>, 1)
    ELSE LET f == FindList(out.data)
         IN  IF f.raised THEN Raise("TypeError")
             ELSE IF ~f.found THEN Return(<<>>, <<"warning">>, 1)
             ELSE Return(f.items, <<>>, 1)

NoReturn == [raised |-> FALSE, exc |-> "", value |-> <<>>, messages |-> <<>>, requests |-> 0]

CallSearchStation ==
    /\ http_call.fn = "search_station"
    /\ http_call.state = "called"
    /\ http_ret' = search_station(API_KEY, http_call.out)
    /\ http_call' = [http_call EXCEPT !.state = "done"]
    /\ UNCHANGED <<varsN, varsC, API_KEY, varsA>>

CallGetDepartures ==
    /\ http_call.fn = "get_departures"
    /\ http_call.state = "called"
    /\ http_ret' = get_departures(API_KEY, http_call.out)
    /\ http_call' = [http_call EXCEPT !.state = "done"]
    /\ UNCHANGED <<varsN, varsC, API_KEY, varsA>>

Elements ==
    {Station("stop", NoKey, "A"), Station(NoKey, "1", "A"), Station(NoKey, NoKey, "A"),
     Station("station", "2", "B"), NonRecord}

Fields == {FieldAbsent, FieldNonList, FieldList(<<>>), FieldList(<<Station(NoKey, "1", "A")>>)}

Bodies ==
    {ListBody(l) : l \in ListsUpTo(Elements, MaxItems)}
    \cup {ListBody([i \in 1..n |-> Station("stop", "1", "A")]) : n \in 1..MaxStations}
    \cup {DictBody(<<a, b, c>>) : a \in Fields, b \in Fields, c \in Fields}
    \cup {StringBody(k) : k \in 0..3}
    \cup {ScalarBody(sh) : sh \in {"number", "null"}}

Outcomes ==
    {Failure(k) : k \in {"connection_error", "timeout", "http_error",
                         "bad_json_requests", "bad_json_stdlib"}}
    \cup {Json(b) : b \in Bodies}

KeyValues == {"", PLACEHOLDER, "secret"}

(***************************************************************************)
(* process_departures as its callers see it: the whole function.           *)
(***************************************************************************)
RECURSIVE LoopRows(_, _)
LoopRows(json, i) ==
    IF i > Len(json) THEN <<>>
    ELSE IF RecordRaises(json[i]) THEN LoopRows(json, i + 1)
    ELSE <<Row(json[i], i)>> \o LoopRows(json, i + 1)

process_departures(json) ==
    IF json = <<>> THEN <<>>
    ELSE IF LoopRows(json, 1) = <<>> THEN <<>>
    ELSE SortValues(CoerceDelay(LoopRows(json, 1)))

(***************************************************************************)
(* The Streamlit script, one block per step.  A run starts at the API key  *)
(* check and ends at "idle"; st.rerun() starts the next run at once.  A    *)
(* user action is taken on a widget the last run rendered.                 *)
(***************************************************************************)
None == "<None>"

NoTable == [has |-> FALSE, stop_id |-> NoKey, rows |-> <<>>]
Table(stop_id, rows) == [has |-> TRUE, stop_id |-> stop_id, rows |-> rows]

\* no key set: the session state of a new session
EmptySession ==
    [station_query |-> NoKey,
     search_results |-> [has |-> FALSE, list |-> <<>>],
     selected_station_id |-> NoKey,
     selected_station_name |-> NoKey,
     departures_df |-> NoTable]

NoCalls == [search_station |-> 0, get_departures |-> 0]

DefaultQuery == "Potsdam Hbf"

\* the check left out
ConfigCheckSkipped == FALSE

\* if not API_KEY or API_KEY == "YOUR_VBB_API_KEY_HERE": st.error, st.stop
ConfigCheckFails == KeyNotConfigured(API_KEY)

\* st.rerun(): the run ends and the next one starts, with no widget event
Rerun ==
    /\ pc' = "keycheck"
    /\ picked' = NoKey
    /\ refresh_clicked' = FALSE
    /\ page' = {}
    /\ page_options' = <<>>

\* the script raised: Streamlit shows the exception and the run ends
EndRun == pc' = "idle"

KeyCheckStop ==
    /\ pc = "keycheck"
    /\ ConfigCheckFails
    /\ config_error' = TRUE
    /\ EndRun
    /\ UNCHANGED <<session_state, action, typed, picked, selectbox_value,
                   refresh_clicked, page, page_options, calls>>
    /\ UNCHANGED <<varsN, varsC, API_KEY, varsH>>

KeyCheckPass ==
    /\ pc = "keycheck"
    /\ ~ConfigCheckFails
    /\ pc' = "query"
    /\ UNCHANGED <<session_state, action, typed, picked, selectbox_value,
                   refresh_clicked, page, page_options, calls, config_error>>
    /\ UNCHANGED <<varsN, varsC, API_KEY, varsH>>

\* if 'station_query' not in st.session_state: ... = "Potsdam Hbf"
WithDefaultQuery(ss) ==
    IF ss.station_query = NoKey THEN [ss EXCEPT !.station_query = DefaultQuery] ELSE ss

\* st.text_input(value=st.session_state['station_query']): what the user typed
\* in this run, else the value given
text_input(ss) == IF typed # NoKey THEN typed ELSE ss.station_query

\* the query change without 'del st.session_state['departures_df']'
QueryChangeKeepsTable(ss, q) ==
    [ss EXCEPT !.station_query = q,
               !.search_results = [has |-> TRUE, list |-> <<>>],
               !.selected_station_id = None,
               !.selected_station_name = None]

\* the body of 'if station_query != st.session_state['station_query']'
QueryChange(ss, q) ==
    [ss EXCEPT !.station_query = q,
               !.search_results = [has |-> TRUE, list |-> <<>>],
               !.selected_station_id = None,
               !.selected_station_name = None,
               !.departures_df = NoTable]

\* 'Initialize session state keys if they don't exist'
InitKeys(ss) ==
    [ss EXCEPT !.search_results = IF ss.search_results.has THEN @
                                  ELSE [has |-> TRUE, list |-> <<>>],
               !.selected_station_id = IF @ = NoKey THEN None ELSE @,
               !.selected_station_name = IF @ = NoKey THEN None ELSE @]

QueryBlock ==
    /\ pc = "query"
    /\ LET ss0 == WithDefaultQuery(session_state)
           station_query == text_input(ss0)
           ss1 == IF station_query # ss0.station_query
                  THEN QueryChange(ss0, station_query) ELSE ss0
       IN  session_state' = InitKeys(ss1)
    /\ page' = page \cup {"text_input"}
    /\ pc' = "search"
    /\ UNCHANGED <<action, typed, picked, selectbox_value, refresh_clicked,
                   page_options, calls, config_error>>
    /\ UNCHANGED <<varsN, varsC, API_KEY, varsH>>

\* the search on every run with a query, results or not
ShouldSearchAlways(ss) == ss.station_query # ""

\* if station_query and not st.session_state['search_results']
ShouldSearch(ss) == ss.station_query # "" /\ ss.search_results.list = <<>>

\* the outcomes of the search request drawn in a session
R_AB == <<Station("stop", "1", "A"), Station("stop", "2", "B")>>
R_BA == <<Station("stop", "3", "B"), Station("stop", "1", "A")>>
R_NoId == <<Station("stop", NoKey, "A")>>
R_SameName == <<Station("stop", "1", "A"), Station("stop", "4", "A")>>
R_EmptyName == <<Station("stop", "1", "A"), Station("stop", "5", "")>>

SearchOutcomes ==
    {Failure("timeout"), Json(ScalarBody("null")), Json(ListBody(<<>>)),
     Json(ListBody(R_AB)), Json(DictBody(<<FieldList(R_BA), FieldAbsent, FieldAbsent>>)),
     Json(ListBody(R_NoId)), Json(ListBody(R_SameName)), Json(ListBody(R_EmptyName))}

SearchCall ==
    /\ pc = "search"
    /\ ShouldSearch(session_state)
    /\ \E out \in SearchOutcomes :
        LET r == search_station(API_KEY, out)
        IN  /\ calls' = [calls EXCEPT !.search_station = @ + 1]
            /\ IF r.raised
               THEN EndRun /\ UNCHANGED session_state
               ELSE /\ session_state' =
                        [session_state EXCEPT !.search_results.list = r.value]
                    /\ pc' = "select"
    /\ UNCHANGED <<action, typed, picked, selectbox_value, refresh_clicked,
                   page, page_options, config_error>>
    /\ UNCHANGED <<varsN, varsC, API_KEY, varsH>>

SearchSkip ==
    /\ pc = "search"
    /\ ~ShouldSearch(session_state)
    /\ pc' = "select"
    /\ UNCHANGED <<session_state, action, typed, picked, selectbox_value,
                   refresh_clicked, page, page_options, calls, config_error>>
    /\ UNCHANGED <<varsN, varsC, API_KEY, varsH>>

\* station.get('name', 'Unknown Name')
StationName(station) == IF station.name = NoKey THEN "Unknown Name" ELSE station.name

\* if station.get('id')
HasId(station) == station.id \notin {NoKey, ""}

\* the dict {name: id}: the id of a name is that of the last station carrying
\* it, and the names keep the order of their first occurrence
station_options(results, name) ==
    LET valid == SelectSeq(results, HasId)
        k == CHOOSE k \in 1..Len(valid) :
                 /\ StationName(valid[k]) = name
                 /\ \A j \in (k + 1)..Len(valid) : StationName(valid[j]) # name
    IN  valid[k].id

RECURSIVE Names(_, _)
Names(valid, seen) ==
    IF valid = <<>> THEN <<>>
    ELSE IF StationName(Head(valid)) \in seen THEN Names(Tail(valid), seen)
    ELSE <<StationName(Head(valid))>>
         \o Names(Tail(valid), seen \cup {StationName(Head(valid))})

station_names(results) == Names(SelectSeq(results, HasId), {})

InSeq(x, seq) == \E k \in 1..Len(seq) : seq[k] = x

IndexOf(x, seq) == CHOOSE k \in 1..Len(seq) : seq[k] = x

\* the default of the selectbox: the session's selection when it is among the
\* names, else the first name, which becomes the session's selection
WithDefaultSelection(ss) ==
    LET names == station_names(ss.search_results.list)
    IN  IF InSeq(ss.selected_station_name, names) THEN ss
        ELSE [ss EXCEPT !.selected_station_name = names[1],
                        !.selected_station_id =
                            station_options(ss.search_results.list, names[1])]

current_selection_index(ss) ==
    LET names == station_names(ss.search_results.list)
    IN  IF InSeq(ss.selected_station_name, names)
        THEN IndexOf(ss.selected_station_name, names) ELSE 1

\* what st.selectbox(options, index, key) can return, always one of the
\* options: the user's pick in the run the pick started; else the option at
\* index, or the value the widget kept under its key when that is still an
\* option
SelectboxReturns(ss) ==
    LET names == station_names(ss.search_results.list)
    IN  IF picked # NoKey /\ InSeq(picked, names) THEN {picked}
        ELSE {names[current_selection_index(ss)]}
             \cup {n \in {selectbox_value} : InSeq(n, names)}

\* if selected_station_name and selected_station_name != session's
SelectionChanged(w, ss) == w # "" /\ w # ss.selected_station_name

SelectNoResults ==
    /\ pc = "select"
    /\ station_names(session_state.search_results.list) = <<>>
    /\ pc' = "fetch"
    /\ picked' = NoKey
    /\ UNCHANGED <<session_state, action, typed, selectbox_value, refresh_clicked,
                   page, page_options, calls, config_error>>
    /\ UNCHANGED <<varsN, varsC, API_KEY, varsH>>

SelectKeep ==
    /\ pc = "select"
    /\ station_names(session_state.search_results.list) # <<>>
    /\ LET ss1 == WithDefaultSelection(session_state)
       IN  \E w \in SelectboxReturns(session_state) :
            /\ ~SelectionChanged(w, ss1)
            /\ session_state' = ss1
            /\ selectbox_value' = w
    /\ page' = page \cup {"selectbox"}
    /\ page_options' = station_names(session_state.search_results.list)
    /\ picked' = NoKey
    /\ pc' = "fetch"
    /\ UNCHANGED <<action, typed, refresh_clicked, calls, config_error>>
    /\ UNCHANGED <<varsN, varsC, API_KEY, varsH>>

SelectChange ==
    /\ pc = "select"
    /\ station_names(session_state.search_results.list) # <<>>
    /\ LET ss1 == WithDefaultSelection(session_state)
       IN  \E w \in SelectboxReturns(session_state) :
            /\ SelectionChanged(w, ss1)
            /\ session_state' =
                   [ss1 EXCEPT !.selected_station_name = w,
                               !.selected_station_id =
                                   station_options(ss1.search_results.list, w),
                               !.departures_df = NoTable]
            /\ selectbox_value' = w
    /\ Rerun
    /\ UNCHANGED <<action, typed, calls, config_error>>
    /\ UNCHANGED <<varsN, varsC, API_KEY, varsH>>

\* if st.session_state.get('selected_station_id')
StationSelected(ss) == ss.selected_station_id \notin {NoKey, None, ""}

\* the fetch on every run, cached table or not
AlwaysFetch(ss) == TRUE

\* if 'departures_df' not in st.session_state
NeedsInitialFetch(ss) == ~ss.departures_df.has

\* the outcomes of the departures request drawn in a session
DeparturesOutcomes ==
    {Failure("http_error"), Json(ScalarBody("number")), Json(ListBody(<<>>)),
     Json(ListBody(<<Dep(LineDict("S1"), T1000, Absent, T1007, Absent, Absent)>>)),
     Json(DictBody(<<FieldList(<<Dep(LineDict("U2"), T1007, Absent, T1000, Absent,
                                     DelayInt(90)), NotADict>>),
                     FieldAbsent, FieldAbsent>>))}

FetchNoStation ==
    /\ pc = "fetch"
    /\ ~StationSelected(session_state)
    /\ EndRun
    /\ refresh_clicked' = FALSE
    /\ UNCHANGED <<session_state, action, typed, picked, selectbox_value,
                   page, page_options, calls, config_error>>
    /\ UNCHANGED <<varsN, varsC, API_KEY, varsH>>

FetchRefresh ==
    /\ pc = "fetch"
    /\ StationSelected(session_state)
    /\ refresh_clicked
    /\ \E out \in DeparturesOutcomes :
        LET r == get_departures(API_KEY, out)
        IN  /\ calls' = [calls EXCEPT !.get_departures = @ + 1]
            /\ IF r.raised
               THEN /\ EndRun
                    /\ page' = page \cup {"button"}
                    /\ refresh_clicked' = FALSE
                    /\ UNCHANGED <<session_state, picked, page_options>>
               ELSE /\ session_state' =
                        [session_state EXCEPT !.departures_df =
                            Table(session_state.selected_station_id,
                                  process_departures(r.value))]
                    /\ Rerun
    /\ UNCHANGED <<action, typed, selectbox_value, config_error>>
    /\ UNCHANGED <<varsN, varsC, API_KEY, varsH>>

FetchInitial ==
    /\ pc = "fetch"
    /\ StationSelected(session_state)
    /\ ~refresh_clicked
    /\ NeedsInitialFetch(session_state)
    /\ \E out \in DeparturesOutcomes :
        LET r == get_departures(API_KEY, out)
        IN  /\ calls' = [calls EXCEPT !.get_departures = @ + 1]
            /\ IF r.raised
               THEN EndRun /\ UNCHANGED session_state
               ELSE /\ session_state' =
                        [session_state EXCEPT !.departures_df =
                            Table(session_state.selected_station_id,
                                  process_departures(r.value))]
                    /\ pc' = "display"
    /\ page' = page \cup {"button"}
    /\ UNCHANGED <<action, typed, picked, selectbox_value, refresh_clicked,
                   page_options, config_error>>
    /\ UNCHANGED <<varsN, varsC, API_KEY, varsH>>

FetchCached ==
    /\ pc = "fetch"
    /\ StationSelected(session_state)
    /\ ~refresh_clicked
    /\ ~NeedsInitialFetch(session_state)
    /\ page' = page \cup {"button"}
    /\ pc' = "display"
    /\ UNCHANGED <<session_state, action, typed, picked, selectbox_value,
                   refresh_clicked, page_options, calls, config_error>>
    /\ UNCHANGED <<varsN, varsC, API_KEY, varsH>>

\* df_display = st.session_state.get('departures_df', ...): the table and the
\* chart are drawn from it
Display ==
    /\ pc = "display"
    /\ EndRun
    /\ UNCHANGED <<session_state, action, typed, picked, selectbox_value,
                   refresh_clicked, page, page_options, calls, config_error>>
    /\ UNCHANGED <<varsN, varsC, API_KEY, varsH>>

(***************************************************************************)
(* The user's actions, each starting a run.                                *)
(***************************************************************************)
Queries == {"", DefaultQuery, "Alexanderplatz"}

StartRun(a) ==
    /\ action' = a
    /\ pc' = "keycheck"
    /\ page' = {}
    /\ page_options' = <<>>
    /\ calls' = NoCalls

EditQuery ==
    /\ pc = "idle"
    /\ "text_input" \in page
    /\ \E q \in Queries \ {session_state.station_query} : typed' = q
    /\ StartRun("query")
    /\ UNCHANGED <<session_state, picked, selectbox_value, refresh_clicked, config_error>>
    /\ UNCHANGED <<varsN, varsC, API_KEY, varsH>>

SelectStation ==
    /\ pc = "idle"
    /\ "selectbox" \in page
    /\ \E k \in 1..Len(page_options) :
        /\ page_options[k] # selectbox_value
        /\ picked' = page_options[k]
    /\ typed' = NoKey
    /\ StartRun("select")
    /\ UNCHANGED <<session_state, selectbox_value, refresh_clicked, config_error>>
    /\ UNCHANGED <<varsN, varsC, API_KEY, varsH>>

PressRefresh ==
    /\ pc = "idle"
    /\ "button" \in page
    /\ refresh_clicked' = TRUE
    /\ typed' = NoKey
    /\ StartRun("refresh")
    /\ UNCHANGED <<session_state, picked, selectbox_value, config_error>>
    /\ UNCHANGED <<varsN, varsC, API_KEY, varsH>>

\* the browser loads the page: a new session and its first run
NewSession ==
    /\ session_state = EmptySession
    /\ pc = "keycheck"
    /\ action = "load"
    /\ typed = NoKey
    /\ picked = NoKey
    /\ selectbox_value = NoKey
    /\ refresh_clicked = FALSE
    /\ page = {}
    /\ page_options = <<>>
    /\ calls = NoCalls
    /\ config_error = FALSE

Reload ==
    /\ pc = "idle"
    /\ session_state' = EmptySession
    /\ typed' = NoKey
    /\ picked' = NoKey
    /\ selectbox_value' = NoKey
    /\ refresh_clicked' = FALSE
    /\ config_error' = FALSE
    /\ StartRun("load")
    /\ UNCHANGED <<varsN, varsC, API_KEY, varsH>>

(***************************************************************************)
(* The specifications.                                                     *)
(***************************************************************************)
NormalizeIdle ==
    /\ departures_json = <<>>
    /\ idx = 1
    /\ processed_data = <<>>
    /\ warnings = <<>>
    /\ df_departures = <<>>
    /\ pcN = "idle"

ClientIdle ==
    /\ http_call = [fn |-> "none", state |-> "idle", out |-> Failure("timeout")]
    /\ http_ret = NoReturn

AppIdle ==
    /\ NewSession
    /\ API_KEY = "secret"

ChartIdle ==
    /\ df_display = <<>>
    /\ avg_delay = <<>>
    /\ shown = "idle"

InitChart ==
    /\ df_display \in SmallTables \cup WideTables
    /\ avg_delay = <<>>
    /\ shown = "none"
    /\ NormalizeIdle
    /\ ClientIdle
    /\ AppIdle

NextChart ==
    \/ ShowNoData
    \/ ShowNoPositive
    \/ ShowChart

SpecChart == InitChart /\ [][NextChart]_vars

InitNormalize ==
    /\ departures_json \in ListsUpTo(RawCore, MaxLen) \cup {<<d>> : d \in RawFull}
    /\ idx = 1
    /\ processed_data = <<>>
    /\ warnings = <<>>
    /\ df_departures = <<>>
    /\ pcN = "call"
    /\ ChartIdle
    /\ ClientIdle
    /\ AppIdle

NextNormalize ==
    \/ CallEmpty
    \/ CallLoop
    \/ AppendRecord
    \/ SkipRecord
    \/ ReturnNoRows
    \/ ReturnSorted

SpecNormalize == InitNormalize /\ [][NextNormalize]_vars

InitClient ==
    /\ API_KEY \in KeyValues
    /\ \E fn \in {"search_station", "get_departures"}, out \in Outcomes :
           http_call = [fn |-> fn, state |-> "called", out |-> out]
    /\ http_ret = NoReturn
    /\ NormalizeIdle
    /\ ChartIdle
    /\ NewSession

NextClient ==
    \/ CallSearchStation
    \/ CallGetDepartures

SpecClient == InitClient /\ [][NextClient]_vars

Init ==
    /\ API_KEY \in KeyValues
    /\ NewSession
    /\ NormalizeIdle
    /\ ChartIdle
    /\ ClientIdle

Next ==
    \/ KeyCheckStop
    \/ KeyCheckPass
    \/ QueryBlock
    \/ SearchCall
    \/ SearchSkip
    \/ SelectNoResults
    \/ SelectKeep
    \/ SelectChange
    \/ FetchNoStation
    \/ FetchRefresh
    \/ FetchInitial
    \/ FetchCached
    \/ Display
    \/ EditQuery
    \/ SelectStation
    \/ PressRefresh
    \/ Reload

Spec == Init /\ [][Next]_vars

(***************************************************************************)
(* Properties of process_departures (SpecNormalize).                       *)
(***************************************************************************)
RowsSoFar == IF pcN = "done" THEN df_departures ELSE processed_data

\* a number, or a string of an integer, that is not negative
ExplicitDelay(dep) == dep.delay.tag \in {"int", "float", "numstr"} /\ dep.delay.v >= 0

\* the explicit delay in tenths of a second
DelayTenths(dep) == IF dep.delay.tag = "float" THEN dep.delay.v ELSE 10 * dep.delay.v

DerivedDelay(dep) ==
    /\ dep.delay.tag = "absent"
    /\ scheduled_time_str(dep).tag = "ts"
    /\ expected_time_str(dep).tag = "ts"

\* C1: every kept record's 'Delay (Min)' follows the derivation rule: with an
\* explicit non-negative numeric delay d it is floor(d / 60), whatever the
\* timestamps are; with no delay field and both times parsable it is the
\* difference expected - scheduled rounded to a nearest whole minute, and 0
\* when that is negative.
C1_DelayRule ==
    \A k \in 1..Len(RowsSoFar) :
        LET row == RowsSoFar[k]
            dep == departures_json[row.src]
            diff == expected_time_str(dep).v - scheduled_time_str(dep).v
        IN  /\ ExplicitDelay(dep) =>
                /\ 600 * row.Delay <= DelayTenths(dep)
                /\ DelayTenths(dep) < 600 * (row.Delay + 1)
            /\ DerivedDelay(dep) =>
                \/ row.Delay = 0 /\ diff <= 30
                \/ /\ row.Delay > 0
                   /\ 60 * row.Delay - diff <= 30
                   /\ diff - 60 * row.Delay <= 30

\* the three examples of the rule in one returned table: delay 90 gives 1,
\* 10:00/10:07 gives 7, 10:00/09:58 gives 0
C1_Witness ==
    /\ pcN = "done"
    /\ \E i, j, k \in 1..Len(df_departures) :
        /\ departures_json[df_departures[i].src].delay = DelayInt(90)
        /\ df_departures[i].Delay = 1
        /\ departures_json[df_departures[j].src] =
               Dep(LineDict("S1"), T1000, Absent, T1007, Absent, Absent)
        /\ df_departures[j].Delay = 7
        /\ departures_json[df_departures[k].src] =
               Dep(LineDict("S1"), T1000, Absent, T0958, Absent, Absent)
        /\ df_departures[k].Delay = 0

\* C2: every record of the table, built or returned, has a 'Delay (Min)' that
\* is an integer >= 0, whatever the delay field and the timestamps are.
C2_DelayNonNegative ==
    /\ \A k \in 1..Len(processed_data) : processed_data[k].Delay \in Nat
    /\ \A k \in 1..Len(df_departures) : df_departures[k].Delay \in Nat

\* a returned table holding an early departure (no delay field) and a record
\* with a negative explicit delay, both with delay 0
C2_Witness ==
    /\ pcN = "done"
    /\ \E k \in 1..Len(df_departures) :
        LET dep == departures_json[df_departures[k].src]
        IN  \/ /\ DerivedDelay(dep)
               /\ expected_time_str(dep).v < scheduled_time_str(dep).v
               /\ df_departures[k].Delay = 0
            \/ /\ dep.delay = DelayInt(-61)
               /\ df_departures[k].Delay = 0

Positions(rows) == {rows[k].src : k \in 1..Len(rows)}

\* C3: when process_departures returns, every input record either failed, was
\* dropped and produced exactly one diagnostic, or is present in the table
\* exactly once; so |output| = |input| - (number of diagnostics), wherever the
\* failing records sit.
C3_FailureIsolation ==
    pcN = "done" =>
        /\ Len(df_departures) = Len(departures_json) - Len(warnings)
        /\ \A i \in 1..Len(departures_json) :
            LET nRows == Cardinality({k \in 1..Len(df_departures) :
                                          df_departures[k].src = i})
                nWarn == Cardinality({k \in 1..Len(warnings) : warnings[k] = i})
            IN  IF RecordRaises(departures_json[i])
                THEN nRows = 0 /\ nWarn = 1
                ELSE nRows = 1 /\ nWarn = 0

\* three records, the first one failing, the two after it returned
C3_Witness ==
    /\ pcN = "done"
    /\ Len(departures_json) = 3
    /\ RecordRaises(departures_json[1])
    /\ Len(warnings) = 1
    /\ Positions(df_departures) = {2, 3}

\* C4: the returned table is ascending by 'Expected' read as a time of one
\* day, and every 'N/A' comes after every parsable time.
C4_SortedByExpected ==
    pcN = "done" =>
        \A i, j \in 1..Len(df_departures) :
            i < j =>
                LET a == df_departures[i].Expected
                    b == df_departures[j].Expected
                IN  /\ a.na => b.na
                    /\ (~a.na /\ ~b.na) => a.hh * 60 + a.mm <= b.hh * 60 + b.mm

\* a table whose input order was N/A first, then a later time, then an
\* earlier one
C4_Witness ==
    /\ pcN = "done"
    /\ Len(df_departures) = 3
    /\ df_departures[3].Expected.na
    /\ df_departures[3].src = 1
    /\ df_departures[1].src = 3
    /\ df_departures[1].Expected # df_departures[2].Expected

(***************************************************************************)
(* Properties of the average-delay view (SpecChart).                       *)
(***************************************************************************)
MeansOverPositive ==
    \A e \in 1..Len(avg_delay) :
        /\ avg_delay[e].count =
               Cardinality({k \in 1..Len(df_display) :
                   df_display[k].Line = avg_delay[e].Line /\ df_display[k].Delay > 0})
        /\ avg_delay[e].count > 0
        /\ avg_delay[e].total = SumDelay(df_display, avg_delay[e].Line)

\* C8 as stated: the view has at most 15 entries and each entry's mean is
\* strictly greater than the next entry's.
C8_StrictlyDescending ==
    shown = "chart" =>
        /\ Len(avg_delay) <= 15
        /\ \A e \in 1..(Len(avg_delay) - 1) :
               avg_delay[e].total * avg_delay[e + 1].count
                   > avg_delay[e + 1].total * avg_delay[e].count

\* C8 as amended: the view has at most 15 entries, each entry's mean is taken
\* over the line's records with 'Delay (Min)' > 0, and no entry's mean is
\* less than the next entry's (two lines may have the same mean).
C8_Descending ==
    shown = "chart" =>
        /\ Len(avg_delay) <= 15
        /\ MeansOverPositive
        /\ \A e \in 1..(Len(avg_delay) - 1) :
               avg_delay[e].total * avg_delay[e + 1].count
                   >= avg_delay[e + 1].total * avg_delay[e].count

\* a table of more than 15 delayed lines, cut to 15 entries whose means differ
C8_Witness ==
    /\ shown = "chart"
    /\ Cardinality({df_display[k].Line : k \in 1..Len(df_display)}) > 15
    /\ Len(avg_delay) = 15
    /\ avg_delay[1].total * avg_delay[15].count
           > avg_delay[15].total * avg_delay[1].count

(***************************************************************************)
(* Properties of the HTTP clients (SpecClient).                            *)
(***************************************************************************)
\* C5: search_station and get_departures never raise past their boundary:
\* whatever the outcome of the HTTP call, the caller gets a list; after a
\* transport or decode failure the list is empty and a message is surfaced.
C5_NeverRaises ==
    http_call.state = "done" =>
        /\ ~http_ret.raised
        /\ (~KeyNotConfigured(API_KEY) /\ http_call.out.kind # "json") =>
               /\ http_ret.value = <<>>
               /\ http_ret.messages # <<>>

(***************************************************************************)
(* Properties of the Streamlit script (Spec).                              *)
(***************************************************************************)
TotalCalls == calls.search_station + calls.get_departures

\* C6: in a session whose API key is absent or the placeholder, every run
\* states the missing configuration and halts at the check: the session state
\* is never written, no widget is rendered (no search, selection or refresh
\* is possible), and neither client is called, so no request goes out.
C6_ConfigErrorHalts ==
    KeyNotConfigured(API_KEY) =>
        /\ session_state = EmptySession
        /\ TotalCalls = 0
        /\ page = {}
        /\ pc \in {"keycheck", "idle"}
        /\ pc = "idle" => config_error

\* a run without a key has ended with the error on the page
C6_Witness ==
    /\ KeyNotConfigured(API_KEY)
    /\ pc = "idle"
    /\ config_error

\* C7 as stated: the calls of search_station and get_departures caused by one
\* user action, over the run it starts and the rerun it forces, are at most 1.
C7_AtMostOneCall == action # "load" => TotalCalls <= 1

\* C7 as amended: one user action causes at most one call of search_station
\* and at most one call of get_departures; selecting a station or pressing
\* Refresh causes at most one call in all, editing the query at most two (the
\* search, then the fetch for the station selected by default).
C7_AtMostOneCallPerClient ==
    /\ calls.search_station <= 1
    /\ calls.get_departures <= 1
    /\ action \in {"select", "refresh"} => TotalCalls <= 1

\* a query edit whose run searched and then fetched; a selection and a
\* refresh that fetched
C7_Witness ==
    \/ action = "query" /\ pc = "display" /\ TotalCalls = 2
    \/ action = "select" /\ pc = "display" /\ TotalCalls = 1 /\ ~KeyNotConfigured(API_KEY)

TableChanged ==
    /\ pc # "idle"
    /\ session_state.departures_df.has
    /\ session_state'.departures_df # session_state.departures_df

\* C9 as stated: during a run the cached table is removed or replaced only
\* when the run was started by a station selection or by Refresh; a run
\* started by an edit of the search query leaves it unchanged.
C9_OnlySelectionOrRefresh ==
    [][TableChanged => action \in {"select", "refresh"}]_vars

\* C9 as amended: the cached table is removed or replaced only by a change of
\* the search query (which removes it), by a change of the selected station in
\* the selectbox (which removes it), or by an explicit Refresh (which replaces
\* it with a table fetched for the selected station); every other step of a
\* run leaves it unchanged.
C9_InvalidationRule ==
    [][TableChanged =>
        \/ /\ pc = "query"
           /\ session_state'.station_query # session_state.station_query
           /\ ~session_state'.departures_df.has
        \/ /\ pc = "select"
           /\ session_state'.selected_station_name # session_state.selected_station_name
           /\ ~session_state'.departures_df.has
        \/ /\ pc = "fetch"
           /\ refresh_clicked
           /\ session_state'.departures_df.has
           /\ session_state'.departures_df.stop_id = session_state.selected_station_id]_vars

\* the rerun after a Refresh shows the table the Refresh stored; a query edit
\* has removed the table of the station selected before it
C9_Witness ==
    \/ /\ action = "refresh"
       /\ pc = "display"
       /\ session_state.departures_df.rows # <<>>
    \/ /\ action = "query"
       /\ pc = "search"
       /\ ~session_state.departures_df.has
       /\ session_state.selected_station_id = None
       /\ selectbox_value # NoKey

\* C10: whenever a run reaches the display step with a cached table, the
\* table was fetched for the station id now selected, and that id is the one
\* the current search results map the selected name to.
C10_NoStaleTable ==
    (pc = "display" /\ session_state.departures_df.has) =>
        /\ session_state.departures_df.stop_id = session_state.selected_station_id
        /\ InSeq(session_state.selected_station_name,
                 station_names(session_state.search_results.list))
        /\ session_state.selected_station_id =
               station_options(session_state.search_results.list,
                               session_state.selected_station_name)

\* after a query edit whose results put another station first, the table
\* shown is the one of that station
C10_Witness ==
    /\ pc = "display"
    /\ action = "query"
    /\ session_state.search_results.list = R_BA
    /\ session_state.selected_station_id = "3"
    /\ session_state.departures_df.stop_id = "3"
    /\ session_state.departures_df.rows # <<>>

====
